---- MODULE Spec2Model ----
(***************************************************************************)
(* Model of the python-gateway sensor monitor.                             *)
(*                                                                         *)
(*   Spec      SensorMonitorApp.run (src/main.py): the gateway loop, its   *)
(*             alarm engine and its wake-up scheduler.  The value returned *)
(*             by SensorManager.read_all_sensors is an input of each       *)
(*             cycle.                                                      *)
(*   ConnSpec  SensorManager (src/ble_man/manager.py): connect_all,        *)
(*             _connect_sensor, the read loop, disconnect_all,             *)
(*             _disconnect_sensor and the link-drop callback.              *)
(*                                                                         *)
(* Time is counted in tenths of a second: every datetime, timedelta and    *)
(* perf_counter value of the code is an integer number of tenths, so that  *)
(* round(x, 2) of line 160 of main.py is the identity on modelled values.  *)
(* A Python dict is a function whose DOMAIN is the set of its keys.        *)
(***************************************************************************)
EXTENDS Integers, Sequences, FiniteSets, TLC

\* ------------------------------------------------------------------ bounds
\* Loop iterations of SensorMonitorApp.run explored.
MaxCycles == 5
\* Configuration pushes delivered by the realtime subscription.
MaxPushes == 1

\* Calls of SensorManager.read_all_sensors explored.
MaxCalls == 3
\* BleakClient objects that reach the connected state.
MaxHandles == 2

\* ------------------------------------------------------- program constants
\* timedelta(minutes=5), in tenths of a second.
MinDurationAfterStart == 3000
\* timedelta(minutes=60), in tenths of a second.
ResendAlarmInterval == 36000
\* The 0.2 s floor of delay_between_samples.
Floor == 2
\* The 1 s subtracted from the time left to a deadline.
GuardMargin == 10
\* sampling_interval > 600 asks read_all_sensors to disconnect on finish.
DisconnectAbove == 600
\* Defaults of on_config_update and of __init__.
DefaultSamplingInterval == 60
DefaultMaxThreshold == 60
DefaultMinThreshold == -40

\* SensorManager(max_retries=3, retry_delay=2).
MaxRetries == 3
\* The percentage points of line 218.
Hysteresis == 5

\* ------------------------------------------------------------------ inputs
\* sensors.json: the configured devices, in configured order.
SENSORS == <<"AA", "BB">>

Macs == {SENSORS[i] : i \in 1..Len(SENSORS)}

\* Temperatures a device may report (degrees Celsius).
Temps == {50, 70}

\* Percentages battery_mv_to_percent may compute for a device: apart by
\* less than, exactly and more than the hysteresis.
Percents == {50, 53, 55, 58}

\* Raw battery readings given to battery_mv_to_percent: millivolts every
\* 10 mV across the curve, the values around V_min and around V_max - 6 mV of
\* each temperature, and values far outside; temperatures below, at, between
\* and above the two anchors of the interpolation.
MilliVolts ==
    {2380 + 10 * k : k \in 0..60}
        \cup {-100, 0, 2399, 2401, 2643, 2644, 2816, 2817, 2953, 2954, 3300}

BattTemps == {-30, -25, 0, 20, 30}

\* The percentage computed while the link behaviour is explored.
LinkPercents == {50}

EmptyRow == [k \in {} |-> 0]

\* Time read_all_sensors may take, in tenths of a second.
ElapsedChoices == {3}

\* Rows of the gateway table the configuration source may deliver.
ConfigRecords ==
    { [sampling_interval |-> 3600, email_recipients |-> <<"ops">>,
       active_alarm |-> TRUE, max_alert_threshold |-> 60,
       min_alert_threshold |-> -40],
      [sampling_interval |-> 0, active_alarm |-> FALSE],
      [sampling_interval |-> 300, active_alarm |-> TRUE,
       max_alert_threshold |-> 80, min_alert_threshold |-> 60] }

\* A field of a row: missing, or holding one of the values.
Opt(field, values) ==
    {EmptyRow} \cup {[k \in {field} |-> v] : v \in values}

\* Rows of the gateway table with every combination of the five settings
\* present or missing; a row always carries its id.
ConfigRows ==
    { [k \in {"id"} |-> "gw"] @@ a @@ b @@ c @@ d @@ e :
        a \in Opt("sampling_interval", {0, 300}),
        b \in Opt("email_recipients", {<<"ops">>}),
        c \in Opt("active_alarm", {TRUE, FALSE}),
        d \in Opt("max_alert_threshold", {25, 80}),
        e \in Opt("min_alert_threshold", {-10}) }

\* fetch_gateway_config returns None on an error or a missing row.
NoConfig == [absent |-> TRUE]

\* ------------------------------------------------------------------- state
VARIABLES
    \* SensorMonitorApp fields
    last_device_status, active_alarm, max_alert_threshold, min_alert_threshold,
    sampling_interval, email_recipients, over_threshold_start, last_alert_sent,
    active_alert_macs,
    \* position of run() and its locals
    pc, clock, startG, disconnect_on_finish, data, active_macs, now, idx,
    alerts_to_send, delay_between_samples, base_delay,
    \* what the cycle handed to the sink
    status_events, panel,
    \* which branch of the alarm engine each address took in this cycle
    alarm_path,
    \* the addresses read in range since their over_threshold_start was set
    read_in_range,
    \* whether fetch_gateway_config returned a row, the configuration in
    \* force when the iteration entered read_all_sensors, and what the
    \* iteration handed to upload_telemetry, send_alarm_email and upload_alarm
    fetched, cycle_cfg, sink,
    \* the record last passed to on_config_update
    delivered,
    \* counters bounding the exploration
    cycles, pushes,
    \* SensorManager: self.clients, is_connected of every BleakClient that
    \* connected, and the disconnected callbacks not yet delivered
    clients, is_connected, pending_callbacks,
    \* position of read_all_sensors and the locals of the calls it makes
    mpc, disconnect_sensors_on_finish, sensor_i, attempt, read_i, reading,
    results, entries, disc_tasks,
    \* record of the last _connect_sensor call: the outcome of each attempt,
    \* the sleeps taken and what it returned
    attempt_log, sleeps, connect_result,
    \* calls of read_all_sensors made
    calls,
    \* the clients _read_sensor_data was called with in this call of
    \* read_all_sensors, in order, and the clients connect_all saw connected
    attempted, found_connected,
    \* the addresses _connect_sensor returned None for in this call
    failed_connect,
    \* the sampling interval the caller tested at line 76 for this call, and
    \* whether self.clients was empty when the call was made
    call_started,
    \* self.last_reported_battery; the last battery observation (address,
    \* computed percent, whether battery_percent was emitted) and the percent
    \* computed at the previous observation of each address
    last_reported_battery, batt_data, batt_prev,
    \* the last battery_mv_to_percent call: its arguments and its result
    conv

appVars == <<last_device_status, active_alarm, max_alert_threshold,
             min_alert_threshold, sampling_interval, email_recipients,
             over_threshold_start, last_alert_sent, active_alert_macs>>
cfgVars == <<active_alarm, max_alert_threshold, min_alert_threshold,
             sampling_interval, email_recipients>>
alarmVars == <<over_threshold_start, last_alert_sent, active_alert_macs>>
loopVars == <<pc, clock, startG, disconnect_on_finish, data, active_macs, now,
              idx, alerts_to_send, delay_between_samples, base_delay,
              status_events, panel, alarm_path, read_in_range, cycles, pushes, fetched,
              delivered,
              cycle_cfg, sink>>
battGhost == <<batt_data, batt_prev, conv>>
linkVars == <<clients, is_connected, pending_callbacks, mpc,
              disconnect_sensors_on_finish, sensor_i, attempt, read_i, reading,
              results, entries, disc_tasks, attempt_log, sleeps,
              connect_result, calls, attempted, found_connected,
              failed_connect, call_started>>
connVars == <<linkVars, last_reported_battery, battGhost>>
vars == <<appVars, loopVars, connVars>>

\* ----------------------------------------------------------------- helpers
EmptyDict == [k \in {} |-> 0]

Put(d, k, v) == [x \in (DOMAIN d) \cup {k} |-> IF x = k THEN v ELSE d[x]]

Del(d, k) == [x \in (DOMAIN d) \ {k} |-> d[x]]

\* Mutant of Get: a missing key keeps nothing and a present one is ignored.
Get_IgnoresKey(d, k, default) == default

Get(d, k, default) == IF k \in DOMAIN d THEN d[k] ELSE default

Max(a, b) == IF a >= b THEN a ELSE b

\* Tenths of a second in s seconds.
Tenths(s) == s * 10

\* Every order in which the elements of the set S can be iterated.
Orders(S) ==
    {s \in [1..Cardinality(S) -> S] :
        \A i, j \in 1..Cardinality(S) : i # j => s[i] # s[j]}

\* The readings read_all_sensors may return: at most one per configured
\* device, in configured order.  Of a reading, run() uses mac, temperature
\* and whether battery_percent is present; the latter only decides whether
\* update_batt_device is awaited after the reading, and any reading may
\* carry it, so it is not recorded: see Suspended.
RECURSIVE ReadingLists(_)
ReadingLists(i) ==
    IF i > Len(SENSORS) THEN {<<>>}
    ELSE LET rest == ReadingLists(i + 1)
             here == {[mac |-> SENSORS[i], temperature |-> t] : t \in Temps}
         IN rest \cup {<<r>> \o tl : r \in here, tl \in rest}

\* The five fields on_config_update assigns, as one value.
CurrentCfg ==
    [sampling_interval |-> sampling_interval,
     email_recipients |-> email_recipients, active_alarm |-> active_alarm,
     max_alert_threshold |-> max_alert_threshold,
     min_alert_threshold |-> min_alert_threshold]

\* No alarm message was built in the iteration.
NoMessage == [absent |-> TRUE]

\* Nothing handed to the sink yet in the iteration.
NoSink == [telemetry |-> <<>>, message |-> NoMessage, email_to |-> <<>>]

\* ------------------------------------------------- SensorMonitorApp.__init__
LoopInit ==
    /\ last_device_status = EmptyDict
    /\ active_alarm = FALSE
    /\ max_alert_threshold = DefaultMaxThreshold
    /\ min_alert_threshold = DefaultMinThreshold
    /\ sampling_interval = DefaultSamplingInterval
    /\ email_recipients = <<>>
    /\ over_threshold_start = EmptyDict
    /\ last_alert_sent = EmptyDict
    /\ active_alert_macs = {}
    /\ pc = "startup"
    /\ clock = 0
    /\ startG = 0
    /\ disconnect_on_finish = FALSE
    /\ data = <<>>
    /\ active_macs = {}
    /\ now = 0
    /\ idx = 1
    /\ alerts_to_send = <<>>
    /\ delay_between_samples = 0
    /\ base_delay = 0
    /\ status_events = {}
    /\ panel = <<>>
    /\ alarm_path = EmptyDict
    /\ read_in_range = {}
    /\ cycles = 0
    /\ pushes = 0
    /\ fetched = FALSE
    /\ delivered = NoConfig
    /\ cycle_cfg = CurrentCfg
    /\ sink = NoSink

\* ------------------------------------------ SensorMonitorApp.on_config_update
\* Line 49: None and the empty dict are both false.
Truthy(gateway_config) ==
    gateway_config # NoConfig /\ DOMAIN gateway_config # {}

OnConfigUpdate(gateway_config) ==
    IF ~Truthy(gateway_config)
    THEN UNCHANGED cfgVars
    ELSE /\ sampling_interval' =
              Get(gateway_config, "sampling_interval", DefaultSamplingInterval)
         /\ email_recipients' = Get(gateway_config, "email_recipients", <<>>)
         /\ active_alarm' = Get(gateway_config, "active_alarm", FALSE)
         /\ max_alert_threshold' =
              Get(gateway_config, "max_alert_threshold", DefaultMaxThreshold)
         /\ min_alert_threshold' =
              Get(gateway_config, "min_alert_threshold", DefaultMinThreshold)

\* Mutant of DisconnectOnFinish: >= in place of >.
DisconnectOnFinish_AtThreshold(interval) == interval >= DisconnectAbove

\* Line 76: the argument of read_all_sensors.
DisconnectOnFinish(interval) == interval > DisconnectAbove

\* run(), lines 57-76: one fetch, applied, then the subscription, and the
\* first iteration enters read_all_sensors.
Startup ==
    /\ pc = "startup"
    /\ \E gateway_config \in ConfigRecords \cup {NoConfig} :
          /\ OnConfigUpdate(gateway_config)
          /\ fetched' = (gateway_config # NoConfig)
          /\ delivered' = gateway_config
    /\ cycle_cfg' = CurrentCfg'
    /\ startG' = clock
    /\ disconnect_on_finish' = DisconnectOnFinish(sampling_interval')
    /\ cycles' = 1
    /\ pc' = "reading"
    /\ UNCHANGED connVars
    /\ UNCHANGED <<last_device_status, alarmVars, clock, data, active_macs,
                   now, idx, alerts_to_send, delay_between_samples, base_delay,
                   status_events, panel, alarm_path, read_in_range, pushes, sink>>

\* The realtime callback runs on the event loop, so only while run() is
\* suspended in an await: inside read_all_sensors, in update_batt_device
\* after a reading (when it carries battery_percent, which any reading may),
\* in upload_telemetry when there is data, in upload_alarm and
\* upload_status_panel when alerts were sent, and in the final sleep.
Suspended ==
    \/ pc \in {"reading", "sleep"}
    \/ pc = "alarm" /\ idx > 1
    \/ pc = "sched" /\ alerts_to_send # <<>>

ConfigPush ==
    /\ Suspended
    /\ pushes < MaxPushes
    /\ pushes' = pushes + 1
    /\ \E gateway_config \in ConfigRecords :
          /\ OnConfigUpdate(gateway_config)
          /\ delivered' = gateway_config
    /\ UNCHANGED connVars
    /\ UNCHANGED <<last_device_status, alarmVars, pc, clock, startG,
                   disconnect_on_finish, data, active_macs, now, idx,
                   alerts_to_send, delay_between_samples, base_delay,
                   status_events, panel, alarm_path, read_in_range, cycles, fetched,
                   cycle_cfg, sink>>

\* ------------------------------------------------------- run(), lines 80-90
ActiveMacs(d) == {d[i].mac : i \in 1..Len(d)}

\* Mutant of StatusChanged: the first status of a device is not published.
StatusChanged_OnlyTransitions(status, mac, is_active) ==
    mac \in DOMAIN status /\ status[mac] # is_active

StatusChanged(status, mac, is_active) ==
    mac \notin DOMAIN status \/ status[mac] # is_active

StatusEvents(status, active) ==
    {<<mac, mac \in active>> : mac \in {m \in Macs : StatusChanged(status, m, m \in active)}}

StatusAfter(status, active) ==
    [mac \in (DOMAIN status) \cup Macs |-> mac \in active]

\* read_all_sensors returns after some time with the cycle's readings; the
\* status loop and line 92 follow.
ReadReturns ==
    /\ pc = "reading"
    /\ \E d \in ReadingLists(1), e \in ElapsedChoices :
          /\ data' = d
          /\ clock' = clock + e
          /\ now' = clock + e
          /\ active_macs' = ActiveMacs(d)
          /\ status_events' = StatusEvents(last_device_status, ActiveMacs(d))
          /\ last_device_status' = StatusAfter(last_device_status, ActiveMacs(d))
    /\ idx' = 1
    /\ alerts_to_send' = <<>>
    /\ pc' = "alarm"
    /\ UNCHANGED connVars
    /\ UNCHANGED <<cfgVars, alarmVars, startG, disconnect_on_finish,
                   delay_between_samples, base_delay, panel, alarm_path,
                   read_in_range,
                   cycles, pushes, fetched, delivered, cycle_cfg, sink>>

\* ------------------------------------------------------ run(), lines 103-125
OutOfRange(temp, max_t, min_t) == temp > max_t \/ temp < min_t

DebounceElapsed(duration) == duration >= MinDurationAfterStart

ResendDue(las, mac, nowv) ==
    mac \notin DOMAIN las \/ nowv - las[mac] >= ResendAlarmInterval

\* Mutant of InRangeBranch: lines 124-125 left out.
InRangeBranch_KeepsAlert(mac, st) ==
    [ots |-> Del(st.ots, mac), las |-> st.las, act |-> st.act,
     alert |-> FALSE, path |-> "inrange"]

\* Lines 121-125: the reading is in range.
InRangeBranch(mac, st) ==
    [ots |-> Del(st.ots, mac), las |-> st.las, act |-> st.act \ {mac},
     alert |-> FALSE, path |-> "inrange"]

\* Mutant of OutOfRangeBranch: line 120 left out.
OutOfRangeBranch_NoStamp(mac, nowv, st) ==
    LET ots1 == IF mac \in DOMAIN st.ots THEN st.ots ELSE Put(st.ots, mac, nowv)
        duration == nowv - ots1[mac]
    IN  IF DebounceElapsed(duration)
        THEN IF ResendDue(st.las, mac, nowv)
             THEN [ots |-> ots1, las |-> st.las,
                   act |-> st.act \cup {mac}, alert |-> TRUE, path |-> "alert"]
             ELSE [ots |-> ots1, las |-> st.las, act |-> st.act \cup {mac},
                   alert |-> FALSE, path |-> "alerting"]
        ELSE [ots |-> ots1, las |-> st.las, act |-> st.act,
              alert |-> FALSE, path |-> "pending"]

\* Lines 105-120: the reading is out of range.
OutOfRangeBranch(mac, nowv, st) ==
    LET ots1 == IF mac \in DOMAIN st.ots THEN st.ots ELSE Put(st.ots, mac, nowv)
        duration == nowv - ots1[mac]
    IN  IF DebounceElapsed(duration)
        THEN IF ResendDue(st.las, mac, nowv)
             THEN [ots |-> ots1, las |-> Put(st.las, mac, nowv),
                   act |-> st.act \cup {mac}, alert |-> TRUE, path |-> "alert"]
             ELSE [ots |-> ots1, las |-> st.las, act |-> st.act \cup {mac},
                   alert |-> FALSE, path |-> "alerting"]
        ELSE [ots |-> ots1, las |-> st.las, act |-> st.act,
              alert |-> FALSE, path |-> "pending"]

\* Mutant of AlarmEngine: the test of line 103 left out.
AlarmEngine_Ungated(mac, temp, nowv, enabled, max_t, min_t, st) ==
    IF OutOfRange(temp, max_t, min_t)
    THEN OutOfRangeBranch(mac, nowv, st)
    ELSE InRangeBranch(mac, st)

\* Lines 103-125 for one reading.
AlarmEngine(mac, temp, nowv, enabled, max_t, min_t, st) ==
    IF ~enabled
    THEN [ots |-> st.ots, las |-> st.las, act |-> st.act,
          alert |-> FALSE, path |-> "skipped"]
    ELSE IF OutOfRange(temp, max_t, min_t)
         THEN OutOfRangeBranch(mac, nowv, st)
         ELSE InRangeBranch(mac, st)

\* duration_minutes of line 118.
DurationMinutes(duration) == duration \div 600

\* One iteration of the loop of lines 94-129.
AlarmStep ==
    /\ pc = "alarm"
    /\ idx <= Len(data)
    /\ LET d == data[idx]
           r == AlarmEngine(d.mac, d.temperature, now, active_alarm,
                            max_alert_threshold, min_alert_threshold,
                            [ots |-> over_threshold_start,
                             las |-> last_alert_sent,
                             act |-> active_alert_macs])
       IN /\ over_threshold_start' = r.ots
          /\ last_alert_sent' = r.las
          /\ active_alert_macs' = r.act
          /\ alarm_path' = Put(alarm_path, d.mac, r.path)
          /\ read_in_range' =
                IF d.mac \notin DOMAIN r.ots
                THEN read_in_range \ {d.mac}
                ELSE IF OutOfRange(d.temperature, max_alert_threshold,
                                   min_alert_threshold)
                     THEN read_in_range
                     ELSE read_in_range \cup {d.mac}
          /\ alerts_to_send' =
                IF r.alert
                THEN Append(alerts_to_send,
                            [mac |-> d.mac, temperature |-> d.temperature,
                             duration_minutes |->
                                DurationMinutes(now - r.ots[d.mac])])
                ELSE alerts_to_send
    /\ idx' = idx + 1
    /\ UNCHANGED connVars
    /\ UNCHANGED <<last_device_status, cfgVars, pc, clock, startG,
                   disconnect_on_finish, data, active_macs, now,
                   delay_between_samples, base_delay, status_events, panel,
                   cycles, pushes, fetched, delivered, cycle_cfg, sink>>

\* ------------------------------------------------------ run(), lines 131-153
RECURSIVE JoinComma(_)
JoinComma(flags) ==
    IF Len(flags) = 0 THEN <<>>
    ELSE IF Len(flags) = 1 THEN <<flags[1]>>
    ELSE <<flags[1], ",">> \o JoinComma(Tail(flags))

\* message_panel_str, as the sequence of its characters.
PanelString(act) ==
    <<"[">> \o JoinComma([i \in 1..Len(SENSORS) |->
                            IF SENSORS[i] \in act THEN "1" ELSE "0"]) \o <<"]">>

\* payload_telemetry of lines 98-101.
PayloadTelemetry(d) ==
    [i \in 1..Len(d) |-> [publisher |-> d[i].mac, value |-> d[i].temperature]]

\* Lines 131-145: the payload given to upload_telemetry, and when alerts
\* were collected the message (its thresholds line and its alert lines) and
\* the receivers given to send_alarm_email.
SinkCalls(d, alerts, max_t, min_t, receivers) ==
    [telemetry |-> PayloadTelemetry(d),
     message |-> IF alerts # <<>>
                 THEN [max |-> max_t, min |-> min_t, alerts |-> alerts]
                 ELSE NoMessage,
     email_to |-> IF alerts # <<>> THEN receivers ELSE <<>>]

\* upload_telemetry, then the alert message and the panel when alerts were
\* collected.
SendAlerts ==
    /\ pc = "alarm"
    /\ idx > Len(data)
    /\ panel' = IF alerts_to_send # <<>> THEN PanelString(active_alert_macs)
                ELSE panel
    /\ sink' = SinkCalls(data, alerts_to_send, max_alert_threshold,
                         min_alert_threshold, email_recipients)
    /\ pc' = "sched"
    /\ UNCHANGED connVars
    /\ UNCHANGED <<appVars, clock, startG, disconnect_on_finish, data,
                   active_macs, now, idx, alerts_to_send, delay_between_samples,
                   base_delay, status_events, alarm_path, read_in_range, cycles, pushes,
                   fetched, delivered, cycle_cfg>>

\* ------------------------------------------------------ run(), lines 157-199
\* Mutant of Floored: max(x, 0).
Floored_AtZero(x) == Max(x, 0)

\* max(x, 0.2) of lines 161, 177 and 188.
Floored(x) == Max(x, Floor)

\* Lines 160-161.
BaseDelay(interval, elapsedG) == Floored(Tenths(interval) - elapsedG)

\* The loop of lines 168-194 over `order`, an iteration order of active_macs,
\* from position i with the delay computed so far.
RECURSIVE ScanDeadlines(_, _, _, _, _, _, _)
ScanDeadlines(order, i, nowv, next_sample_time, delay, ots, las) ==
    IF i > Len(order) THEN delay
    ELSE LET mac == order[i] IN
         IF mac \notin DOMAIN ots
         THEN ScanDeadlines(order, i + 1, nowv, next_sample_time, delay, ots, las)
         ELSE LET deadline == ots[mac] + MinDurationAfterStart IN
              IF /\ mac \notin DOMAIN las
                 /\ nowv < deadline
                 /\ deadline <= next_sample_time
              THEN Floored(deadline - nowv - GuardMargin)
              ELSE IF /\ mac \in DOMAIN las
                      /\ nowv - las[mac] < ResendAlarmInterval
                   THEN LET resend_deadline == las[mac] + ResendAlarmInterval IN
                        IF nowv < resend_deadline /\ resend_deadline <= next_sample_time
                        THEN Floored(resend_deadline - nowv - GuardMargin)
                        ELSE delay
                   ELSE ScanDeadlines(order, i + 1, nowv, next_sample_time,
                                      delay, ots, las)

Schedule ==
    /\ pc = "sched"
    /\ now' = clock
    /\ base_delay' = BaseDelay(sampling_interval, clock - startG)
    /\ \E order \in Orders(active_macs) :
          delay_between_samples' =
             ScanDeadlines(order, 1, clock, clock + base_delay', base_delay',
                           over_threshold_start, last_alert_sent)
    /\ pc' = "sleep"
    /\ UNCHANGED connVars
    /\ UNCHANGED <<appVars, clock, startG, disconnect_on_finish, data,
                   active_macs, idx, alerts_to_send, status_events, panel,
                   alarm_path, read_in_range, cycles, pushes, fetched, delivered, cycle_cfg,
                   sink>>

\* Line 199, then lines 75-76 of the next iteration; the locals of the
\* finished iteration are dead.
Sleep ==
    /\ pc = "sleep"
    /\ cycles < MaxCycles
    /\ clock' = clock + delay_between_samples
    /\ cycles' = cycles + 1
    /\ startG' = clock'
    /\ disconnect_on_finish' = DisconnectOnFinish(sampling_interval)
    /\ data' = <<>>
    /\ active_macs' = {}
    /\ now' = 0
    /\ idx' = 1
    /\ alerts_to_send' = <<>>
    /\ delay_between_samples' = 0
    /\ base_delay' = 0
    /\ status_events' = {}
    /\ alarm_path' = EmptyDict
    /\ cycle_cfg' = CurrentCfg
    /\ sink' = NoSink
    /\ pc' = "reading"
    /\ UNCHANGED connVars
    /\ UNCHANGED <<appVars, panel, pushes, fetched, delivered, read_in_range>>

\* =========================================================== SensorManager
\* An element of self.clients: (client, address, name); the name is the
\* address's label and is not kept.
Entry(h, address) == [client |-> h, addr |-> address]

NoEntry == Entry(0, "")

\* battery_mv_to_percent was not called yet.
NoConversion == [absent |-> TRUE]

\* No battery observation was made yet.
NoBattery == [absent |-> TRUE]

\* The record of a _connect_sensor call that has not returned.
NoConnect == [log |-> <<>>, sleeps |-> 0, result |-> "pending"]

\* SensorManager.__init__, before the first read_all_sensors.
ConnInit ==
    /\ clients = <<>>
    /\ is_connected = EmptyDict
    /\ pending_callbacks = {}
    /\ mpc = "idle"
    /\ disconnect_sensors_on_finish = FALSE
    /\ sensor_i = 1
    /\ attempt = 0
    /\ read_i = 1
    /\ reading = NoEntry
    /\ results = <<>>
    /\ entries = <<>>
    /\ disc_tasks = <<>>
    /\ attempt_log = <<>>
    /\ sleeps = 0
    /\ connect_result = NoConnect
    /\ calls = 0
    /\ attempted = <<>>
    /\ found_connected = {}
    /\ failed_connect = {}
    /\ call_started = [interval |-> 0, empty |-> TRUE]
    /\ last_reported_battery = EmptyDict
    /\ batt_data = NoBattery
    /\ batt_prev = EmptyDict
    /\ conv = NoConversion

\* ------------------------------------------------- connect_all, lines 92-102
\* Position of the first entry of cl for `address`, 0 when there is none: the
\* inner loop of lines 94-100 stops at it.
FirstEntryFor(cl, address) ==
    IF \E i \in 1..Len(cl) : cl[i].addr = address
    THEN CHOOSE i \in 1..Len(cl) :
            /\ cl[i].addr = address
            /\ \A j \in 1..(i - 1) : cl[j].addr # address
    ELSE 0

AlreadyConnected(cl, conn, address) ==
    LET i == FirstEntryFor(cl, address)
    IN  i # 0 /\ conn[cl[i].client]

\* The first configured device from position i on that connect_all goes on
\* to connect; Len(SENSORS) + 1 when the loop ends.
RECURSIVE NextToConnect(_, _, _)
NextToConnect(i, cl, conn) ==
    IF i > Len(SENSORS) THEN i
    ELSE IF AlreadyConnected(cl, conn, SENSORS[i])
         THEN NextToConnect(i + 1, cl, conn)
         ELSE i

\* The clients connect_all finds connected (line 97) from configured device
\* i up to the next device it goes on to connect.
ConfirmedFrom(i, cl, conn) ==
    {cl[FirstEntryFor(cl, SENSORS[k])].client :
        k \in i..(NextToConnect(i, cl, conn) - 1)}

\* ------------------------------------------- read_all_sensors, lines 128-145
\* Where read_all_sensors stands when its read loop reaches position i of
\* cl: inside _read_sensor_data of cl[i], or past the loop in the gather of
\* disconnect_all, or returned.  gather() of no task and the early return of
\* line 130 do not suspend.
ReadLoopFrom(i, cl, flag) ==
    IF i <= Len(cl)
    THEN [mpc |-> "reading", sensor_i |-> Len(SENSORS) + 1, read_i |-> i,
          reading |-> cl[i], entries |-> <<>>, disc_tasks |-> <<>>]
    ELSE IF flag /\ cl # <<>>
         THEN [mpc |-> "disconnecting", sensor_i |-> Len(SENSORS) + 1,
               read_i |-> i, reading |-> NoEntry, entries |-> cl,
               disc_tasks |-> [k \in 1..Len(cl) |-> "todo"]]
         ELSE [mpc |-> "done", sensor_i |-> Len(SENSORS) + 1, read_i |-> i,
               reading |-> NoEntry, entries |-> <<>>, disc_tasks |-> <<>>]

\* Where read_all_sensors stands when connect_all reaches configured device
\* i: inside client.connect() of the next device to connect, or in the read
\* loop.
ConnectAllFrom(i, cl, conn, flag) ==
    LET j == NextToConnect(i, cl, conn)
    IN  IF j <= Len(SENSORS)
        THEN [mpc |-> "connecting", sensor_i |-> j, read_i |-> 1,
              reading |-> NoEntry, entries |-> <<>>, disc_tasks |-> <<>>]
        ELSE ReadLoopFrom(1, cl, flag)

Goto(c) ==
    /\ mpc' = c.mpc
    /\ sensor_i' = c.sensor_i
    /\ read_i' = c.read_i
    /\ reading' = c.reading
    /\ entries' = c.entries
    /\ disc_tasks' = c.disc_tasks
    /\ attempt' = IF c.mpc = "connecting" THEN 1 ELSE 0
    /\ attempt_log' = <<>>
    /\ sleeps' = 0
    /\ LET before == IF mpc \in {"idle", "done"} THEN <<>> ELSE attempted
       IN  attempted' = IF c.mpc = "reading"
                        THEN Append(before, c.reading.client)
                        ELSE before

\* The sampling intervals read_all_sensors is called under: the two values
\* around the threshold of line 76.
CallIntervals == {DisconnectAbove, DisconnectAbove + 1}

\* read_all_sensors is called: lines 125-126 and connect_all up to its first
\* await.
ReadAllSensors ==
    /\ mpc \in {"idle", "done"}
    /\ calls < MaxCalls
    /\ calls' = calls + 1
    /\ results' = <<>>
    /\ found_connected' = ConfirmedFrom(1, clients, is_connected)
    /\ failed_connect' = {}
    /\ \E interval \in CallIntervals :
          /\ call_started' = [interval |-> interval, empty |-> clients = <<>>]
          /\ disconnect_sensors_on_finish' = DisconnectOnFinish(interval)
          /\ Goto(ConnectAllFrom(1, clients, is_connected,
                                 DisconnectOnFinish(interval)))
    /\ UNCHANGED <<appVars, loopVars, battGhost>>
    /\ UNCHANGED <<clients, is_connected, pending_callbacks, connect_result,
                   last_reported_battery>>

\* ---------------------------------------------- _connect_sensor, lines 148-163
\* Mutant of MoreAttempts: range(1, self.max_retries + 2).
MoreAttempts_OffByOne(k) == k <= MaxRetries

\* range(1, self.max_retries + 1): another attempt follows attempt k.
MoreAttempts(k) == k < MaxRetries

HandlesLeft == Cardinality(DOMAIN is_connected) < MaxHandles

\* client.connect() returns with the link up: the client is returned and
\* appended (lines 158, 104-105), and connect_all goes on.
ConnectSucceeds ==
    /\ mpc = "connecting"
    /\ HandlesLeft
    /\ LET h == Cardinality(DOMAIN is_connected) + 1
           cl == Append(clients, Entry(h, SENSORS[sensor_i]))
           conn == Put(is_connected, h, TRUE)
       IN /\ clients' = cl
          /\ is_connected' = conn
          /\ connect_result' = [log |-> Append(attempt_log, "connected"),
                                sleeps |-> sleeps, result |-> "client"]
          /\ call_started' = call_started
          /\ failed_connect' = failed_connect
          /\ found_connected' = found_connected \cup {h}
                              \cup ConfirmedFrom(sensor_i + 1, cl, conn)
          /\ Goto(ConnectAllFrom(sensor_i + 1, cl, conn,
                                 disconnect_sensors_on_finish))
    /\ UNCHANGED <<appVars, loopVars, battGhost>>
    /\ UNCHANGED <<pending_callbacks, disconnect_sensors_on_finish, results,
                   calls, last_reported_battery>>

\* client.connect() raises, or returns with the link not connected: the
\* attempt is logged and asyncio.sleep(retry_delay) starts (lines 156-161).
ConnectFails ==
    /\ mpc = "connecting"
    /\ \E how \in {"raised", "not_connected"} :
          attempt_log' = Append(attempt_log, how)
    /\ mpc' = "retry_sleep"
    /\ UNCHANGED <<appVars, loopVars, battGhost>>
    /\ UNCHANGED <<clients, is_connected, pending_callbacks,
                   disconnect_sensors_on_finish, sensor_i, attempt, read_i,
                   reading, results, entries, disc_tasks, sleeps,
                   connect_result, calls, attempted, found_connected, failed_connect,
                   call_started,
                   last_reported_battery>>

\* The sleep of line 161 ends: the next attempt, or None is returned and
\* connect_all goes on without appending.
RetrySleepEnds ==
    /\ mpc = "retry_sleep"
    /\ IF MoreAttempts(attempt)
       THEN /\ attempt' = attempt + 1
            /\ sleeps' = sleeps + 1
            /\ mpc' = "connecting"
            /\ UNCHANGED <<sensor_i, read_i, reading, entries, disc_tasks,
                           attempt_log, connect_result, attempted,
                           found_connected, failed_connect,
                   call_started>>
       ELSE /\ connect_result' = [log |-> attempt_log, sleeps |-> sleeps + 1,
                                  result |-> "none"]
            /\ call_started' = call_started
            /\ failed_connect' = failed_connect \cup {SENSORS[sensor_i]}
            /\ found_connected' = found_connected \cup
                    ConfirmedFrom(sensor_i + 1, clients, is_connected)
            /\ Goto(ConnectAllFrom(sensor_i + 1, clients, is_connected,
                                   disconnect_sensors_on_finish))
    /\ UNCHANGED <<appVars, loopVars, battGhost>>
    /\ UNCHANGED <<clients, is_connected, pending_callbacks,
                   disconnect_sensors_on_finish, results, calls,
                   last_reported_battery>>

\* ------------------------------------------ battery_mv_to_percent, lines 11-42
\* Natural numbers beyond the machine integers, as sequences of digits in
\* base BigBase, least significant first, without leading zeros.
BigBase == 10000

\* a * k + carry, for a digit sequence a and 0 < k.
RECURSIVE MulCarry(_, _, _)
MulCarry(a, k, carry) ==
    IF a = <<>>
    THEN IF carry = 0 THEN <<>>
         ELSE <<carry % BigBase>> \o MulCarry(<<>>, k, carry \div BigBase)
    ELSE LET v == Head(a) * k + carry
         IN  <<v % BigBase>> \o MulCarry(Tail(a), k, v \div BigBase)

\* k to the power n.
RECURSIVE BigPow(_, _)
BigPow(k, n) == IF n = 0 THEN <<1>> ELSE MulCarry(BigPow(k, n - 1), k, 0)

\* The product of the digit sequences' number a and k * k * k.
BigTimesCube(a, k) == MulCarry(MulCarry(MulCarry(a, k, 0), k, 0), k, 0)

\* -1, 0 or 1 as a is below, equal to or above b.
RECURSIVE BigCompare(_, _)
BigCompare(a, b) ==
    IF Len(a) # Len(b) THEN (IF Len(a) < Len(b) THEN -1 ELSE 1)
    ELSE IF a = <<>> THEN 0
    ELSE LET x == a[Len(a)]
             y == b[Len(b)]
         IN  IF x # y THEN (IF x < y THEN -1 ELSE 1)
             ELSE BigCompare(SubSeq(a, 1, Len(a) - 1), SubSeq(b, 1, Len(b) - 1))

\* Lines 17-21.
V_min == 2400
Vmax_20C == 2960
Vmax_n25C == 2650
headroom_full == 6

\* Lines 23-29: V_max in 45ths of a millivolt, the interpolation of line 29
\* being Vmax_n25C + (Vmax_20C - Vmax_n25C) * (temp_c + 25) / 45.
VMax45(temp_c) ==
    IF temp_c >= 20 THEN 45 * Vmax_20C
    ELSE IF temp_c <= -25 THEN 45 * Vmax_n25C
    ELSE 45 * Vmax_n25C + (Vmax_20C - Vmax_n25C) * (temp_c + 25)

\* Mutant of Full: the headroom is left out.
Full_NoHeadroom(mv, temp_c) == 45 * mv >= VMax45(temp_c)

\* Line 34: mv >= V_max - headroom_full.
Full(mv, temp_c) == 45 * mv >= VMax45(temp_c) - 45 * headroom_full

\* Lines 38-42, for V_min < mv < V_max: int(round(100 * soc ** 0.6)) is at
\* least p exactly when 100 * soc ** 0.6 is above p - 1/2, or equal to it
\* with p even (round goes to the even neighbour); with
\* soc = 45 (mv - V_min) / (V_max45 - 45 V_min) and alpha = 3/5 that is
\* (2p - 1)^5 * (V_max45 - 45 V_min)^3 against 200^5 * (45 (mv - V_min))^3.
RoundsToAtLeast(p, mv, temp_c) ==
    LET c == BigCompare(
               BigTimesCube(BigPow(2 * p - 1, 5), VMax45(temp_c) - 45 * V_min),
               BigTimesCube(BigPow(200, 5), 45 * (mv - V_min)))
    IN  c < 0 \/ (c = 0 /\ p % 2 = 0)

\* The largest p of lo..hi that the rounding reaches, lo being reached: the
\* bound of RoundsToAtLeast grows with p, so the interval is halved.
RECURSIVE LargestReached(_, _, _, _)
LargestReached(lo, hi, mv, temp_c) ==
    IF lo = hi THEN lo
    ELSE LET mid == (lo + hi + 1) \div 2
         IN  IF RoundsToAtLeast(mid, mv, temp_c)
             THEN LargestReached(mid, hi, mv, temp_c)
             ELSE LargestReached(lo, mid - 1, mv, temp_c)

\* int(round(percent)) of line 42; percent lies between 0 and 100 because
\* soc lies between 0 and 1.
RoundedPercent(mv, temp_c) == LargestReached(0, 100, mv, temp_c)

Min(a, b) == IF a <= b THEN a ELSE b

battery_mv_to_percent(mv, temp_c) ==
    IF mv <= V_min THEN 0
    ELSE IF Full(mv, temp_c) THEN 100
    ELSE Max(0, Min(100, RoundedPercent(mv, temp_c)))

\* ------------------------------------------ _read_sensor_data, lines 206-222
Abs(x) == IF x < 0 THEN -x ELSE x

\* Mutant of ShouldReport: a strict comparison.
ShouldReport_Strict(memory, device_id, percent) ==
    device_id \notin DOMAIN memory \/ Abs(percent - memory[device_id]) > Hysteresis

\* Line 218: last_percent is None or abs(percent - last_percent) >= 5.
ShouldReport(memory, device_id, percent) ==
    device_id \notin DOMAIN memory \/ Abs(percent - memory[device_id]) >= Hysteresis

\* Lines 209-220: whether data carries battery_percent, and
\* self.last_reported_battery afterwards.
ReadSensorData(memory, device_id, percent) ==
    LET emitted == ShouldReport(memory, device_id, percent)
    IN  [emitted |-> emitted,
         memory |-> IF emitted THEN Put(memory, device_id, percent) ELSE memory]

\* --------------------------------------------- read loop, lines 133-142
\* _read_sensor_data of the entry taken at position read_i ends: with data
\* when the link is up, or with an exception, which is logged.
ReadEnds ==
    /\ mpc = "reading"
    /\ \E ok \in BOOLEAN, percent \in LinkPercents :
          /\ ok => is_connected[reading.client]
          /\ results' = IF ok THEN Append(results, [mac |-> reading.addr])
                        ELSE results
          /\ last_reported_battery' =
                IF ok
                THEN ReadSensorData(last_reported_battery, reading.addr,
                                    percent).memory
                ELSE last_reported_battery
    /\ Goto(ReadLoopFrom(read_i + 1, clients, disconnect_sensors_on_finish))
    /\ UNCHANGED <<appVars, loopVars, battGhost>>
    /\ UNCHANGED <<clients, is_connected, pending_callbacks,
                   disconnect_sensors_on_finish, connect_result, calls,
                   found_connected, failed_connect,
                   call_started>>

\* ------------------------------------------- _disconnect_sensor, lines 165-191
\* What _disconnect_sensor returns for a finished task.
Returned(task) == task \in {"ok", "fallback_ok"}

Finished(task) == task \in {"ok", "fallback_ok", "fallback_failed"}

\* Mutant of FirstAwait: client.disconnect() is awaited whatever the link
\* reports.
FirstAwait_AlwaysDisconnects(link_up) == "waiting"

\* Lines 171-175: wait_for(client.disconnect()) is awaited when the link
\* reports connected; otherwise True is returned at once.
FirstAwait(link_up) == IF link_up THEN "waiting" ELSE "ok"

\* The task of snapshot entry i runs to its first await: wait_for(disconnect)
\* when the link reports connected, else it returns True (lines 171-175).
DisconnectStarts(i) ==
    /\ mpc = "disconnecting"
    /\ disc_tasks[i] = "todo"
    /\ disc_tasks' = [disc_tasks EXCEPT ![i] =
                        FirstAwait(is_connected[entries[i].client])]
    /\ UNCHANGED <<appVars, loopVars, battGhost>>
    /\ UNCHANGED <<clients, is_connected, pending_callbacks, mpc,
                   disconnect_sensors_on_finish, sensor_i, attempt, read_i,
                   reading, results, entries, attempt_log, sleeps,
                   connect_result, calls, attempted, found_connected, failed_connect,
                   call_started,
                   last_reported_battery>>

\* client.disconnect() returns within the timeout: the link is down and Bleak
\* owes the disconnected callback.
DisconnectConfirmed(i) ==
    /\ mpc = "disconnecting"
    /\ disc_tasks[i] = "waiting"
    /\ LET h == entries[i].client
       IN /\ pending_callbacks' = IF is_connected[h]
                                  THEN pending_callbacks \cup {h}
                                  ELSE pending_callbacks
          /\ is_connected' = [is_connected EXCEPT ![h] = FALSE]
    /\ disc_tasks' = [disc_tasks EXCEPT ![i] = "ok"]
    /\ UNCHANGED <<appVars, loopVars, battGhost>>
    /\ UNCHANGED <<clients, mpc, disconnect_sensors_on_finish, sensor_i,
                   attempt, read_i, reading, results, entries, attempt_log,
                   sleeps, connect_result, calls, attempted, found_connected, failed_connect,
                   call_started,
                   last_reported_battery>>

\* client.disconnect() raises or times out: the bluetoothctl fallback runs
\* (lines 176-191) and returns True, or fails itself and False is returned.
DisconnectRaises(i) ==
    /\ mpc = "disconnecting"
    /\ disc_tasks[i] = "waiting"
    /\ \E fallback \in {"fallback_ok", "fallback_failed"} :
          disc_tasks' = [disc_tasks EXCEPT ![i] = fallback]
    /\ UNCHANGED <<appVars, loopVars, battGhost>>
    /\ UNCHANGED <<clients, is_connected, pending_callbacks, mpc,
                   disconnect_sensors_on_finish, sensor_i, attempt, read_i,
                   reading, results, entries, attempt_log, sleeps,
                   connect_result, calls, attempted, found_connected, failed_connect,
                   call_started,
                   last_reported_battery>>

\* ------------------------------------------------ disconnect_all, line 122
\* Mutant of ClientsCleared: only the entries whose disconnect returned True
\* are dropped.
ClientsCleared_OnlyConfirmed(cl, tasks) ==
    LET confirmed == {entries[i] : i \in {k \in 1..Len(tasks) : tasks[k] \in {"ok", "fallback_ok"}}}
    IN  SelectSeq(cl, LAMBDA e : e \notin confirmed)

\* self.clients.clear()
ClientsCleared(cl, tasks) == <<>>

\* gather returns once every task has finished; the list is cleared and
\* read_all_sensors returns.
DisconnectAllReturns ==
    /\ mpc = "disconnecting"
    /\ \A i \in 1..Len(disc_tasks) : Finished(disc_tasks[i])
    /\ clients' = ClientsCleared(clients, disc_tasks)
    /\ mpc' = "done"
    /\ UNCHANGED <<appVars, loopVars, battGhost>>
    /\ UNCHANGED <<is_connected, pending_callbacks,
                   disconnect_sensors_on_finish, sensor_i, attempt, read_i,
                   reading, results, entries, disc_tasks, attempt_log, sleeps,
                   connect_result, calls, attempted, found_connected, failed_connect,
                   call_started,
                   last_reported_battery>>

\* ------------------------------------------------------------- radio link
\* The link of a connected client drops: is_connected turns False and the
\* disconnected callback is owed.
LinkLost(h) ==
    /\ is_connected[h]
    /\ is_connected' = [is_connected EXCEPT ![h] = FALSE]
    /\ pending_callbacks' = pending_callbacks \cup {h}
    /\ UNCHANGED <<appVars, loopVars, battGhost>>
    /\ UNCHANGED <<clients, mpc, disconnect_sensors_on_finish, sensor_i,
                   attempt, read_i, reading, results, entries, disc_tasks,
                   attempt_log, sleeps, connect_result, calls, attempted,
                   found_connected, failed_connect,
                   call_started, last_reported_battery>>

\* ------------------------------------- _on_disconnect_client, lines 107-112
\* Mutant of RemoveFirst: the list is emptied.
RemoveFirst_Clears(cl, h) == <<>>

RECURSIVE RemoveFirst(_, _)
RemoveFirst(cl, h) ==
    IF cl = <<>> THEN <<>>
    ELSE IF Head(cl).client = h THEN Tail(cl)
    ELSE <<Head(cl)>> \o RemoveFirst(Tail(cl), h)

OnDisconnectClient(h) ==
    /\ h \in pending_callbacks
    /\ pending_callbacks' = pending_callbacks \ {h}
    /\ clients' = RemoveFirst(clients, h)
    /\ UNCHANGED <<appVars, loopVars, battGhost>>
    /\ UNCHANGED <<is_connected, mpc, disconnect_sensors_on_finish, sensor_i,
                   attempt, read_i, reading, results, entries, disc_tasks,
                   attempt_log, sleeps, connect_result, calls, attempted,
                   found_connected, failed_connect,
                   call_started, last_reported_battery>>

\* --------------------------------- battery observations, lines 206-222
\* A sequence of _read_sensor_data calls that complete, each for some address
\* with some percent computed by battery_mv_to_percent.
BatteryRead ==
    /\ \E address \in Macs, percent \in Percents :
          LET r == ReadSensorData(last_reported_battery, address, percent)
          IN /\ last_reported_battery' = r.memory
             /\ batt_data' = [mac |-> address, percent |-> percent,
                              emitted |-> r.emitted,
                              previous |-> Get(batt_prev, address, percent)]
             /\ batt_prev' = Put(batt_prev, address, percent)
    /\ UNCHANGED <<appVars, loopVars, linkVars, conv>>

Init == LoopInit /\ ConnInit

Next ==
    \/ Startup
    \/ ConfigPush
    \/ ReadReturns
    \/ AlarmStep
    \/ SendAlerts
    \/ Schedule
    \/ Sleep

Spec == Init /\ [][Next]_vars

ConnNext ==
    \/ ReadAllSensors
    \/ ConnectSucceeds
    \/ ConnectFails
    \/ RetrySleepEnds
    \/ ReadEnds
    \/ \E i \in DOMAIN disc_tasks : DisconnectStarts(i)
    \/ \E i \in DOMAIN disc_tasks : DisconnectConfirmed(i)
    \/ \E i \in DOMAIN disc_tasks : DisconnectRaises(i)
    \/ DisconnectAllReturns
    \/ \E h \in DOMAIN is_connected : LinkLost(h)
    \/ \E h \in pending_callbacks : OnDisconnectClient(h)

ConnSpec == Init /\ [][ConnNext]_vars

BattNext == BatteryRead

BattSpec == Init /\ [][BattNext]_vars

\* A sequence of battery_mv_to_percent calls.
Convert ==
    /\ \E mv \in MilliVolts, temp_c \in BattTemps :
          conv' = [mv |-> mv, temp_c |-> temp_c,
                   percent |-> battery_mv_to_percent(mv, temp_c)]
    /\ UNCHANGED <<appVars, loopVars, linkVars, last_reported_battery,
                   batt_data, batt_prev>>

PercentNext == Convert

PercentSpec == Init /\ [][PercentNext]_vars

\* A sequence of on_config_update calls: the fetch result or a pushed row.
Deliver ==
    /\ \E gateway_config \in ConfigRows \cup {NoConfig} :
          /\ OnConfigUpdate(gateway_config)
          /\ delivered' = gateway_config
    /\ UNCHANGED connVars
    /\ UNCHANGED <<last_device_status, alarmVars, pc, clock, startG,
                   disconnect_on_finish, data, active_macs, now, idx,
                   alerts_to_send, delay_between_samples, base_delay,
                   status_events, panel, alarm_path, read_in_range, cycles, pushes, fetched,
                   cycle_cfg, sink>>

CfgNext == Deliver

CfgSpec == Init /\ [][CfgNext]_vars

\* The run loop with one more push than MaxPushes, so that a setting can be
\* switched and switched back while the loop runs.
ConfigPushAgain ==
    /\ Suspended
    /\ pushes = MaxPushes
    /\ pushes' = pushes + 1
    /\ \E gateway_config \in ConfigRecords :
          /\ OnConfigUpdate(gateway_config)
          /\ delivered' = gateway_config
    /\ UNCHANGED connVars
    /\ UNCHANGED <<last_device_status, alarmVars, pc, clock, startG,
                   disconnect_on_finish, data, active_macs, now, idx,
                   alerts_to_send, delay_between_samples, base_delay,
                   status_events, panel, alarm_path, read_in_range, cycles,
                   fetched, cycle_cfg, sink>>

SwitchNext ==
    \/ Startup
    \/ ConfigPush
    \/ ConfigPushAgain
    \/ ReadReturns
    \/ AlarmStep
    \/ SendAlerts
    \/ Schedule
    \/ Sleep

SwitchSpec == Init /\ [][SwitchNext]_vars

\* ================================================================== claims
CycleOver == pc = "sleep"

\* C1: in a cycle in which the alarm engine found a device in range (with
\* active_alarm true), after the cycle the address has no
\* over_threshold_start, is not in active_alert_macs and has no
\* last_alert_sent.
C1_InRangeReset ==
    CycleOver =>
        \A m \in DOMAIN alarm_path :
            alarm_path[m] = "inrange" =>
                /\ m \notin DOMAIN over_threshold_start
                /\ m \notin active_alert_macs
                /\ m \notin DOMAIN last_alert_sent

\* C2: whenever the alarm engine evaluates an out-of-range reading of a
\* device breaching since t0 at time t: no alert while t - t0 is below
\* min_duration_after_start; an alert in the first cycle in which it is not
\* (the address was not yet alerting); no alert while less than
\* resend_interval has passed since the previous alert of an alerting
\* address, and an alert in the first cycle at or after that deadline.
C2_DebounceAndResend ==
    [][\A m \in Macs :
         ( /\ m \notin DOMAIN alarm_path
           /\ m \in DOMAIN alarm_path'
           /\ alarm_path'[m] \in {"pending", "alerting", "alert"} ) =>
         LET t0 == over_threshold_start'[m]
             alerted == alarm_path'[m] = "alert"
         IN /\ (now - t0 < MinDurationAfterStart) => ~alerted
            /\ (now - t0 >= MinDurationAfterStart /\ m \notin active_alert_macs)
                  => alerted
            /\ ( /\ m \in active_alert_macs
                 /\ m \in DOMAIN last_alert_sent
                 /\ now - last_alert_sent[m] < ResendAlarmInterval ) => ~alerted
            /\ ( /\ m \in active_alert_macs
                 /\ m \in DOMAIN last_alert_sent
                 /\ now - last_alert_sent[m] >= ResendAlarmInterval ) => alerted
      ]_vars

\* C3: every address in active_alert_macs has over_threshold_start set, at
\* least min_duration_after_start in the past.
C3_ActiveAlertInvariant ==
    \A m \in active_alert_macs :
        /\ m \in DOMAIN over_threshold_start
        /\ clock - over_threshold_start[m] >= MinDurationAfterStart

\* An alerting address that was not read in the finished cycle.
C3_Witness ==
    /\ CycleOver
    /\ \E m \in active_alert_macs : m \notin active_macs

\* C4: last_alert_sent is set for an address only while the address is in
\* active_alert_macs or has over_threshold_start set.
C4_LastAlertInvariant ==
    \A m \in DOMAIN last_alert_sent :
        m \in active_alert_macs \/ m \in DOMAIN over_threshold_start

\* C5: the delay passed to the sleep is at least the 0.2 s floor.
C5_SchedulerFloor == CycleOver => delay_between_samples >= Floor

\* The cycle took longer than sampling_interval and a debounce deadline is
\* less than the guard margin away.
C5_Witness ==
    /\ CycleOver
    /\ clock - startG > Tenths(sampling_interval)
    /\ \E m \in active_macs :
          /\ m \in DOMAIN over_threshold_start
          /\ m \notin DOMAIN last_alert_sent
          /\ clock < over_threshold_start[m] + MinDurationAfterStart
          /\ over_threshold_start[m] + MinDurationAfterStart - clock < GuardMargin
          /\ over_threshold_start[m] + MinDurationAfterStart <= clock + base_delay

\* The deadline of address m pending at the end of the cycle, as a set:
\* the debounce deadline when no alert was sent yet, the resend deadline
\* when the address is alerting; empty when it lies in the past.
PendingDeadline(m) ==
    { d \in
        ( IF m \in DOMAIN over_threshold_start /\ m \notin DOMAIN last_alert_sent
          THEN {over_threshold_start[m] + MinDurationAfterStart}
          ELSE {} )
        \cup
        ( IF m \in active_alert_macs /\ m \in DOMAIN last_alert_sent
          THEN {last_alert_sent[m] + ResendAlarmInterval}
          ELSE {} ) : d > clock }

\* C6: the sleep ends no later than the guard margin after the earliest
\* pending deadline of the devices read in the cycle.
C6_EarliestDeadline ==
    CycleOver =>
        \A m \in active_macs : \A d \in PendingDeadline(m) :
            clock + delay_between_samples <= d + GuardMargin

\* C7: a pending deadline of a configured device that was not read in the
\* cycle, when it falls within the base delay, shortens the sleep to it.
C7_CoversUnreadDevices ==
    CycleOver =>
        \A m \in Macs \ active_macs : \A d \in PendingDeadline(m) :
            d <= clock + base_delay =>
                clock + delay_between_samples <= d + GuardMargin

\* Snapshot entries whose link-level disconnect raised or timed out.
Raised == {i \in DOMAIN disc_tasks :
             disc_tasks[i] \in {"fallback_ok", "fallback_failed"}}

DisconnectAllReturned == mpc = "done" /\ entries # <<>>

\* C8: when disconnect_all has returned and exactly one entry's disconnect
\* raised, self.clients is empty and every other disconnect returned True.
C8_DisconnectAllIsolation ==
    (DisconnectAllReturned /\ Cardinality(Raised) = 1) =>
        /\ clients = <<>>
        /\ \A i \in (DOMAIN disc_tasks) \ Raised : Returned(disc_tasks[i])

\* Two entries, one of whose disconnect raised and whose fallback failed too.
C8_Witness ==
    /\ DisconnectAllReturned
    /\ Len(entries) >= 2
    /\ Cardinality(Raised) = 1
    /\ \E i \in Raised : disc_tasks[i] = "fallback_failed"

AllFailed(log) == \A i \in 1..Len(log) : log[i] \in {"raised", "not_connected"}

\* C9: _connect_sensor makes at most max_retries attempts; it returns the
\* client at the first attempt that connects; it returns None after
\* max_retries failed attempts; a sleep separates consecutive attempts.
C9_BoundedRetry ==
    /\ attempt <= MaxRetries
    /\ mpc = "connecting" =>
          /\ Len(attempt_log) = attempt - 1
          /\ sleeps = attempt - 1
          /\ AllFailed(attempt_log)
    /\ Len(connect_result.log) <= MaxRetries
    /\ connect_result.result = "client" =>
          /\ connect_result.log # <<>>
          /\ connect_result.log[Len(connect_result.log)] = "connected"
          /\ AllFailed(SubSeq(connect_result.log, 1, Len(connect_result.log) - 1))
          /\ connect_result.sleeps = Len(connect_result.log) - 1
    /\ connect_result.result = "none" =>
          /\ Len(connect_result.log) = MaxRetries
          /\ AllFailed(connect_result.log)
          /\ connect_result.sleeps >= MaxRetries - 1

\* None returned after a raised connect and one that came back not connected.
C9_Witness ==
    /\ connect_result.result = "none"
    /\ \E i, j \in 1..Len(connect_result.log) :
          /\ connect_result.log[i] = "raised"
          /\ connect_result.log[j] = "not_connected"

\* C10: self.clients holds at most one entry per address.
C10_OneEntryPerAddress ==
    \A i, j \in 1..Len(clients) :
        i # j => clients[i].addr # clients[j].addr

\* Occurrences of h in the sequence s.
Count(s, h) == Cardinality({i \in 1..Len(s) : s[i] = h})

\* C11: when the read loop of read_all_sensors ends, every entry of
\* self.clients whose link is up had _read_sensor_data called for it exactly
\* once in this call, whatever failed or was removed for another device.
C11_ReadIsolation ==
    [][ (mpc = "reading" /\ mpc' # "reading") =>
           \A i \in 1..Len(clients') :
               is_connected'[clients'[i].client] =>
                   Count(attempted', clients'[i].client) = 1 ]_vars

\* C12: when the disconnected callback of client h is delivered, no entry of
\* self.clients holds h afterwards and the other entries are the same, in
\* the same order; when no entry holds h the list is unchanged.
C12_OnLinkDropped ==
    [][ \A h \in pending_callbacks :
           pending_callbacks' = pending_callbacks \ {h} =>
              /\ \A i \in 1..Len(clients') : clients'[i].client # h
              /\ clients' = SelectSeq(clients, LAMBDA e : e.client # h)
              /\ (\A i \in 1..Len(clients) : clients[i].client # h) =>
                     clients' = clients ]_vars

\* In a first call that does not disconnect on finish, the callback of a
\* dropped client was delivered and the other device's entry is still there.
C12_Witness ==
    /\ calls = 1
    /\ ~disconnect_sensors_on_finish
    /\ Len(clients) = 1
    /\ \E h \in DOMAIN is_connected :
          /\ ~is_connected[h]
          /\ h \notin pending_callbacks
          /\ clients[1].client # h

\* C13: battery_percent is emitted on the first observation of an address
\* and afterwards exactly when the percent is at least 5 points away from
\* the last reported one; last_reported_battery[address] becomes the new
\* percent exactly when it is emitted, and no other address is touched.
C13_BatteryHysteresis ==
    [][ batt_data' # batt_data =>
          LET a == batt_data'.mac
              p == batt_data'.percent
              first == a \notin DOMAIN last_reported_battery
          IN /\ batt_data'.emitted <=>
                   (first \/ p - last_reported_battery[a] >= 5
                          \/ last_reported_battery[a] - p >= 5)
             /\ batt_data'.emitted => last_reported_battery' =
                   [m \in DOMAIN last_reported_battery \cup {a} |->
                       IF m = a THEN p ELSE last_reported_battery[m]]
             /\ ~batt_data'.emitted =>
                   last_reported_battery' = last_reported_battery ]_vars

\* A percent was emitted that is less than 5 points from the previous
\* observation of the address: the drift was measured against the last
\* reported value.
C13_Witness ==
    /\ batt_data # NoBattery
    /\ batt_data.emitted
    /\ batt_data.percent - batt_data.previous \in 1..4
    /\ Cardinality(DOMAIN last_reported_battery) = 2

\* C14: when read_all_sensors has returned, update_status_device(mac,
\* is_active) is issued for a configured device exactly when no status was
\* published for it yet or the published one differs from its activity in
\* this cycle; the event carries that activity, which becomes the published
\* status.
C14_StatusEvents ==
    [][ (pc = "reading" /\ pc' = "alarm") =>
          \A m \in Macs :
             LET is_active == \E i \in 1..Len(data') : data'[i].mac = m
                 changed == \/ m \notin DOMAIN last_device_status
                            \/ last_device_status[m] # is_active
             IN /\ <<m, is_active>> \in status_events' <=> changed
                /\ <<m, ~is_active>> \notin status_events'
                /\ last_device_status'[m] = is_active ]_vars

\* After the first cycle: BB, active before, was not read and yields the one
\* event of the cycle, while AA's breach has just started and no alert is
\* collected.
C14_Witness ==
    /\ CycleOver
    /\ cycles >= 2
    /\ status_events = {<<"BB", FALSE>>}
    /\ "AA" \in active_macs
    /\ alarm_path["AA"] = "pending"
    /\ over_threshold_start["AA"] = clock
    /\ alerts_to_send = <<>>

\* C15: a reading evaluated while active_alarm is false leaves
\* over_threshold_start, last_alert_sent and active_alert_macs as they were
\* and collects no alert; a cycle all of whose readings were evaluated so
\* builds no alarm message, sends no email and uploads no panel, while the
\* telemetry payload is uploaded and the device statuses are published.
C15_ActiveAlarmGate ==
    [][ /\ (pc = "alarm" /\ idx' = idx + 1 /\ ~active_alarm) =>
              /\ alarmVars' = alarmVars
              /\ alerts_to_send' = alerts_to_send
        /\ ( /\ pc = "alarm" /\ pc' = "sched"
             /\ \A m \in active_macs : alarm_path[m] = "skipped" ) =>
              /\ sink'.message = NoMessage
              /\ sink'.email_to = <<>>
              /\ panel' = panel
              /\ Len(sink'.telemetry) = Len(data)
              /\ \A m \in Macs : last_device_status[m] = (m \in active_macs)
      ]_vars

\* A cycle run with active_alarm false in which a device tracked as
\* breaching since an earlier cycle reads out of range and a status event
\* was published.
C15_Witness ==
    /\ CycleOver
    /\ ~active_alarm
    /\ status_events # {}
    /\ sink.telemetry # <<>>
    /\ sink.message = NoMessage
    /\ \E i \in 1..Len(data) :
          /\ alarm_path[data[i].mac] = "skipped"
          /\ OutOfRange(data[i].temperature, max_alert_threshold,
                        min_alert_threshold)
          /\ data[i].mac \in DOMAIN over_threshold_start
          /\ over_threshold_start[data[i].mac] < clock

\* C16: no iteration of the loop begins before fetch_gateway_config has
\* returned a configuration.
C16_FetchBeforeFirstCycle == cycles >= 1 => fetched

\* C17: every decision of an iteration reads the configuration that was in
\* force when the iteration entered read_all_sensors (line 76): the alarm
\* evaluation of each reading, the thresholds and receivers of the alert
\* message, and the sampling interval of the scheduler.
C17_ConfigSnapshot ==
    [][ /\ (pc = "alarm" /\ idx' = idx + 1) =>
              /\ active_alarm = cycle_cfg.active_alarm
              /\ max_alert_threshold = cycle_cfg.max_alert_threshold
              /\ min_alert_threshold = cycle_cfg.min_alert_threshold
        /\ (pc = "alarm" /\ pc' = "sched" /\ alerts_to_send # <<>>) =>
              /\ max_alert_threshold = cycle_cfg.max_alert_threshold
              /\ min_alert_threshold = cycle_cfg.min_alert_threshold
              /\ email_recipients = cycle_cfg.email_recipients
        /\ (pc = "sched" /\ pc' = "sleep") =>
              sampling_interval = cycle_cfg.sampling_interval
      ]_vars

\* C18: a _disconnect_sensor task ends with True or False and never with an
\* exception: gather is left only when every task has returned.  The
\* bluetoothctl fallback runs only for a task that awaited
\* client.disconnect(), which is awaited exactly when the link reported
\* connected; a task whose link reported disconnected, or whose disconnect
\* returned in time, returns True without the fallback.
C18_DisconnectOne ==
    [][ /\ \A i \in DOMAIN disc_tasks :
              (i \in DOMAIN disc_tasks' /\ disc_tasks'[i] # disc_tasks[i]) =>
                 LET link_up == is_connected[entries[i].client]
                     before == disc_tasks[i]
                     after == disc_tasks'[i]
                 IN /\ before = "todo" => (after = "waiting" <=> link_up)
                    /\ before = "todo" => (after = "ok" <=> ~link_up)
                    /\ after \in {"fallback_ok", "fallback_failed"} =>
                          before = "waiting"
                    /\ before = "waiting" =>
                          after \in {"ok", "fallback_ok", "fallback_failed"}
        /\ (mpc = "disconnecting" /\ mpc' = "done") =>
              \A i \in DOMAIN disc_tasks : Finished(disc_tasks[i])
      ]_vars

\* disconnect_all has returned; one entry's link was already down when
\* connect_all looked at it and its task returned True at once, another
\* entry's disconnect raised and the fallback ran.
C18_Witness ==
    /\ DisconnectAllReturned
    /\ \E i, j \in DOMAIN disc_tasks :
          /\ disc_tasks[i] = "ok"
          /\ entries[i].client \notin found_connected
          /\ disc_tasks[j] = "fallback_ok"

\* C19: _read_sensor_data is called only with a client that connect_all, in
\* this call of read_all_sensors, found connected or has just connected.
C19_ReadAfterConnect ==
    [][ (mpc' = "reading" /\ (mpc # "reading" \/ read_i' # read_i)) =>
            reading'.client \in found_connected' ]_vars

\* Some entry of cl for `address` reports connected.
ConnectedEntry(cl, conn, address) ==
    \E i \in 1..Len(cl) : cl[i].addr = address /\ conn[cl[i].client]

\* C20: connect_all calls _connect_sensor for a configured device only when
\* no entry of that device reports connected, passes over a device only
\* when one does, and leaves the entries it finds where they are.
C20_EnsureAllFrame ==
    [][ LET advanced == \/ calls' # calls
                        \/ /\ mpc \in {"connecting", "retry_sleep"}
                           /\ sensor_i' # sensor_i
            from == IF calls' # calls THEN 1 ELSE sensor_i + 1
        IN /\ (advanced /\ mpc' = "connecting") =>
                 ~ConnectedEntry(clients', is_connected', SENSORS[sensor_i'])
           /\ advanced =>
                 \A k \in from..(sensor_i' - 1) :
                     ConnectedEntry(clients', is_connected', SENSORS[k])
           /\ ( /\ mpc \in {"idle", "done", "connecting", "retry_sleep"}
                /\ pending_callbacks' = pending_callbacks ) =>
                 \A i \in 1..Len(clients) :
                     i \in 1..Len(clients') /\ clients'[i] = clients[i]
      ]_vars

\* _connect_sensor returns None for the configured device at sensor_i.
ConnectGivesUp == failed_connect' # failed_connect /\ failed_connect' # {}

\* read_all_sensors returns.
CallReturns == mpc \notin {"idle", "done"} /\ mpc' = "done"

\* C24: when _connect_sensor gives up on a configured device, self.clients
\* is left as it was and connect_all goes on to the next configured device
\* without a connected entry; when a call in which that happened returns,
\* every client that connect_all found or made connected, is still up and
\* still in self.clients had _read_sensor_data called for it, and the result
\* has no reading of a device whose connect failed.
C24_ConnectFailureNotFatal ==
    [][ /\ ConnectGivesUp =>
              /\ clients' = clients
              /\ sensor_i' > sensor_i
              /\ \A k \in (sensor_i + 1)..(sensor_i' - 1) :
                     AlreadyConnected(clients, is_connected, SENSORS[k])
              /\ sensor_i' <= Len(SENSORS) => mpc' = "connecting"
              /\ (sensor_i' > Len(SENSORS) /\ clients # <<>>) =>
                     mpc' = "reading"
        /\ (CallReturns /\ failed_connect' # {}) =>
              /\ \A i \in 1..Len(clients') :
                     LET h == clients'[i].client IN
                     (h \in found_connected' /\ is_connected'[h]) =>
                         Count(attempted', h) >= 1
              /\ \A k \in 1..Len(results') :
                     results'[k].mac \notin failed_connect'
      ]_vars

\* C25: when a reading is out of range with active_alarm on, the breach has
\* lasted MinDurationAfterStart and the last alert of the address is older
\* than the start of this breach (so the device was read in range in
\* between), the iteration emits an alert for the address.
C25_EveryBreachEpisodeAlerts ==
    [][ (pc = "alarm" /\ idx' = idx + 1) =>
          LET mac == data[idx].mac IN
          ( /\ active_alarm
            /\ OutOfRange(data[idx].temperature, max_alert_threshold,
                          min_alert_threshold)
            /\ mac \in DOMAIN last_alert_sent
            /\ mac \in DOMAIN over_threshold_start'
            /\ last_alert_sent[mac] < over_threshold_start'[mac]
            /\ DebounceElapsed(now - over_threshold_start'[mac]) ) =>
              /\ Len(alerts_to_send') = Len(alerts_to_send) + 1
              /\ alerts_to_send'[Len(alerts_to_send')].mac = mac ]_vars

\* The '0' and '1' characters of a panel string, in order.
PanelFlags(p) == SelectSeq(p, LAMBDA c : c \in {"0", "1"})

\* C26: when an iteration reaches its sleep, the panel string last given to
\* upload_status_panel has, for every configured device, a '1' exactly when
\* the address is in active_alert_macs; as long as no panel was uploaded
\* active_alert_macs is empty.
C26_PanelFreshness ==
    CycleOver =>
        IF panel = <<>>
        THEN active_alert_macs = {}
        ELSE /\ Len(PanelFlags(panel)) = Len(SENSORS)
             /\ \A i \in 1..Len(SENSORS) :
                    (PanelFlags(panel)[i] = "1") <=>
                        (SENSORS[i] \in active_alert_macs)

\* C27: an iteration emits an alert for an address only if no reading of the
\* address was in range since its over_threshold_start was set.
C27_SustainedBreach ==
    [][ (pc = "alarm" /\ Len(alerts_to_send') > Len(alerts_to_send)) =>
            alerts_to_send'[Len(alerts_to_send')].mac \notin read_in_range'
      ]_vars

\* The value of the dict d at k, or "none".
At(d, k) == IF k \in DOMAIN d THEN <<d[k]>> ELSE <<>>

LongInterval(c) == c.interval > DisconnectAbove

\* C29: a call of read_all_sensors made while sampling_interval > 600 goes
\* from its read loop into disconnect_all over every entry and returns with
\* self.clients empty, so that the next call finds it empty and calls
\* _connect_sensor for every configured device in turn; a call made while
\* sampling_interval <= 600 never enters disconnect_all and returns with
\* self.clients as the read loop left it; when connect_all ends with
\* self.clients empty the call returns at once with no reading.
C29_DisconnectOnFinish ==
    [][ /\ ( /\ mpc = "reading" /\ mpc' # "reading"
             /\ LongInterval(call_started) /\ clients' # <<>> ) =>
              /\ mpc' = "disconnecting"
              /\ entries' = clients'
              /\ \A i \in DOMAIN disc_tasks' : disc_tasks'[i] = "todo"
        /\ (CallReturns /\ LongInterval(call_started)) => clients' = <<>>
        /\ (calls' # calls /\ calls >= 1 /\ LongInterval(call_started)) =>
              clients = <<>>
        /\ (calls' # calls /\ clients = <<>>) =>
              mpc' = "connecting" /\ sensor_i' = 1
        /\ ( /\ call_started.empty
             /\ mpc \in {"connecting", "retry_sleep"}
             /\ sensor_i' # sensor_i ) =>
              /\ sensor_i' = sensor_i + 1
              /\ sensor_i' <= Len(SENSORS) => mpc' = "connecting"
        /\ (CallReturns /\ ~LongInterval(call_started)) =>
              mpc # "disconnecting" /\ clients' = clients
        /\ mpc' = "disconnecting" => LongInterval(call_started')
        /\ ( /\ mpc \in {"connecting", "retry_sleep"}
             /\ sensor_i' > Len(SENSORS)
             /\ clients' = <<>> ) =>
              /\ mpc' = "done"
              /\ results' = <<>>
              /\ entries' = <<>>
      ]_vars

\* A second call, made with self.clients empty and under an interval above
\* 600 s, connected a device again, read it and returned through
\* disconnect_all with self.clients empty.
C29_Witness ==
    /\ calls = 2
    /\ call_started.empty
    /\ LongInterval(call_started)
    /\ mpc = "done"
    /\ entries # <<>>
    /\ Cardinality(DOMAIN is_connected) = 2
    /\ Len(results) = 1
    /\ clients = <<>>

\* The iteration began when a sleep shortened to the debounce deadline of
\* mac, or to its resend deadline, ended: GuardMargin before the deadline.
WokeForDeadline(mac) ==
    /\ mac \in DOMAIN over_threshold_start
    /\ IF mac \notin DOMAIN last_alert_sent
       THEN startG = over_threshold_start[mac] + MinDurationAfterStart
                        - GuardMargin
       ELSE startG = last_alert_sent[mac] + ResendAlarmInterval - GuardMargin

\* C30: in the iteration that follows a sleep shortened to a deadline of an
\* address, a reading of the address that is still out of range, with
\* active_alarm on, emits the alert.
C30_DeadlineWakeAlerts ==
    [][ (pc = "alarm" /\ idx' = idx + 1) =>
          LET d == data[idx] IN
          ( /\ active_alarm
            /\ OutOfRange(d.temperature, max_alert_threshold,
                          min_alert_threshold)
            /\ WokeForDeadline(d.mac) ) =>
              /\ Len(alerts_to_send') = Len(alerts_to_send) + 1
              /\ alerts_to_send'[Len(alerts_to_send')].mac = d.mac ]_vars

\* C21: at a fixed temperature battery_mv_to_percent does not decrease when
\* the millivolts grow; its result is an integer from 0 to 100, 0 for
\* mv <= 2400 and 100 for mv >= V_max(temp) - 6.
C21_BatteryModel ==
    [][ /\ conv'.percent \in 0..100
        /\ conv'.mv <= 2400 => conv'.percent = 0
        /\ 45 * conv'.mv >= VMax45(conv'.temp_c) - 45 * 6 => conv'.percent = 100
        /\ (conv # NoConversion /\ conv.temp_c = conv'.temp_c
                                /\ conv.mv <= conv'.mv) =>
              conv.percent <= conv'.percent ]_vars

\* A conversion on the curve at an interpolated V_max: 2600 mV at 0 degrees.
C21_Witness ==
    /\ conv # NoConversion
    /\ conv.temp_c = 0
    /\ conv.mv = 2600
    /\ conv.percent \in 1..99

\* C23: a call of on_config_update with a row sets each of the five settings
\* to the row's field when the row has it and to the default when it has
\* not; a call with None leaves the five settings as they were.
C23_ConfigApplication ==
    [][ IF delivered' = NoConfig
        THEN UNCHANGED cfgVars
        ELSE LET Has(f) == f \in DOMAIN delivered' IN
             /\ sampling_interval' =
                  (IF Has("sampling_interval")
                   THEN delivered'.sampling_interval
                   ELSE DefaultSamplingInterval)
             /\ email_recipients' =
                  (IF Has("email_recipients")
                   THEN delivered'.email_recipients ELSE <<>>)
             /\ active_alarm' =
                  (IF Has("active_alarm")
                   THEN delivered'.active_alarm ELSE FALSE)
             /\ max_alert_threshold' =
                  (IF Has("max_alert_threshold")
                   THEN delivered'.max_alert_threshold
                   ELSE DefaultMaxThreshold)
             /\ min_alert_threshold' =
                  (IF Has("min_alert_threshold")
                   THEN delivered'.min_alert_threshold
                   ELSE DefaultMinThreshold) ]_vars

\* A row without sampling_interval and min_alert_threshold was applied over
\* other values: both are back at their defaults, the fields it has are
\* taken.
C23_Witness ==
    /\ delivered # NoConfig
    /\ DOMAIN delivered = {"id", "active_alarm", "max_alert_threshold"}
    /\ delivered.max_alert_threshold = 80
    /\ delivered.active_alarm
    /\ sampling_interval = DefaultSamplingInterval
    /\ min_alert_threshold = DefaultMinThreshold
    /\ max_alert_threshold = 80
    /\ active_alarm
    /\ email_recipients = <<>>

\* C22: a panel string handed to upload_status_panel has one character per
\* configured device, in configured order, "1" when the address is in
\* active_alert_macs at the upload and "0" otherwise, and no other character.
C22_PanelContent ==
    [][ panel' # panel =>
           panel' = [i \in 1..Len(SENSORS) |->
                        IF SENSORS[i] \in active_alert_macs THEN "1" ELSE "0"]
      ]_vars

====
